---- MODULE Spec2Model ----
(***************************************************************************)
(* Model of the NDJSON streaming pipeline of OllamaClient (src/src/lib.rs). *)
(* The five streaming endpoints (pull_model, generate, chat, create_model,  *)
(* push_model) build the same combinator chain                              *)
(*     bytes_stream().map_err(..).try_filter_map(..).try_flatten()          *)
(*                   .and_then(..)                                          *)
(* and differ only in the target type of serde_json::from_str; the model    *)
(* follows generate (lines 126-155) with the one-field record type          *)
(* {a: number}.                                                             *)
(*                                                                          *)
(* Bytes are their integer codes.  The alphabet of the model is ASCII plus  *)
(* the byte 255, which can occur in no well-formed UTF-8 sequence.          *)
(***************************************************************************)
EXTENDS Integers, Sequences, FiniteSets, TLC

VARIABLES
    status,     \* status code of the response in hand, 0 when there is none
    textOk,     \* response.text() could read the body of the rejected response
    result,     \* what the endpoint call has returned to its caller
    body,       \* the bytes the server sends on this response, in order
    pos,        \* number of bytes of body the source has delivered so far
    srcFailed,  \* the source has reported a transport failure
    fails,      \* number of transport failures the source has reported
    reads,      \* number of times the source has been polled for a chunk
    next,       \* TryFlatten's current inner stream: lines of the last chunk not yet delivered
    pc,         \* consumer position: "idle", or "polling" (inside stream.next().await)
    out,        \* the items the consumer has received, in order
    emitted,    \* the lines handed to the and_then closure, in order
    ends,       \* number of times the consumer has been told None (end of sequence)
    pulls,      \* number of items the consumer has requested
    cancelled,  \* the consumer has dropped the stream
    readsAtCancel   \* value of reads when the stream was dropped

\* the state of the call and the state of the stream it returns
call == <<status, textOk, result>>
stream == <<pos, srcFailed, fails, reads, next, pc, out, emitted, ends, pulls,
            cancelled, readsAtCancel>>

vars == <<status, textOk, result, body, pos, srcFailed, fails, reads, next, pc,
          out, emitted, ends, pulls, cancelled, readsAtCancel>>

----------------------------------------------------------------------------
(* Bounds *)

MaxLines == 2        \* line segments in a response body
MaxChunks == 3       \* chunks the source cuts the body into
MaxFail == 1         \* transport failures the source may report
MaxEnds == 2         \* times the consumer may be told None (polls past the end)

----------------------------------------------------------------------------
(* Bytes and bodies *)

\* b'\n', the terminator searched for by position(|&b| b == b'\n')
NL == 10

\* {"a":1}  and  {"a":2}
Rec1 == <<123, 34, 97, 34, 58, 49, 125>>
Rec2 == <<123, 34, 97, 34, 58, 50, 125>>
\* {}  : well-formed JSON that lacks the field a (schema mismatch)
BadJson == <<123, 125>>
\* a byte that is not UTF-8
BadUtf8 == <<255>>
\* a lone carriage return (a blank line of a CRLF body) and an empty line
OnlyCR == <<13>>
Blank == <<>>

Segments == {Rec1, Rec2, BadJson, BadUtf8, OnlyCR, Blank}

RECURSIVE JoinLines(_)
\* every segment followed by the terminator
JoinLines(segs) ==
    IF segs = <<>> THEN <<>>
    ELSE Head(segs) \o <<NL>> \o JoinLines(Tail(segs))

SegSeqs == UNION {[1..n -> Segments] : n \in 1..MaxLines}

\* a body is a sequence of terminated segments, the last terminator optional
Bodies ==
    {JoinLines(s) : s \in SegSeqs}
        \cup {SubSeq(JoinLines(s), 1, Len(JoinLines(s)) - 1) : s \in SegSeqs}

----------------------------------------------------------------------------
(* The try_filter_map closure: framing of ONE chunk (lib.rs 130-149) *)

RECURSIVE PositionFrom(_, _)
PositionFrom(buffer, i) ==
    IF i > Len(buffer) THEN 0
    ELSE IF buffer[i] = NL THEN i
    ELSE PositionFrom(buffer, i + 1)

\* buffer.iter().position(|&b| b == b'\n'), 1-based, 0 for None
Position(buffer) == PositionFrom(buffer, 1)

\* String::from_utf8 succeeds (within the model's alphabet)
Utf8Valid(bytes) == \A i \in 1..Len(bytes) : bytes[i] < 128

\* char::is_whitespace on the ASCII range
IsWhitespace(b) == b \in {9, 10, 11, 12, 13, 32}

RECURSIVE TrimEndSpaces(_)
\* a trim that removes trailing blanks only and keeps the line ending
TrimEndSpaces(s) ==
    IF s = <<>> THEN <<>>
    ELSE IF s[Len(s)] = 32 THEN TrimEndSpaces(SubSeq(s, 1, Len(s) - 1))
    ELSE s

RECURSIVE TrimEnd(_)
\* str::trim_end
TrimEnd(s) ==
    IF s = <<>> THEN <<>>
    ELSE IF IsWhitespace(s[Len(s)]) THEN TrimEnd(SubSeq(s, 1, Len(s) - 1))
    ELSE s

RECURSIVE SplitLoopKeepBlank(_, _)
\* the loop without the is_empty test: blank lines are pushed too
SplitLoopKeepBlank(buffer, lines) ==
    LET p == Position(buffer) IN
    IF p = 0 THEN [err |-> FALSE, lines |-> lines, rest |-> buffer]
    ELSE LET line == SubSeq(buffer, 1, p)
             drained == SubSeq(buffer, p + 1, Len(buffer))
         IN IF ~Utf8Valid(line)
            THEN [err |-> TRUE, lines |-> <<>>, rest |-> drained]
            ELSE SplitLoopKeepBlank(drained, Append(lines, TrimEnd(line)))

RECURSIVE SplitLoop(_, _)
\* the while-let loop over the chunk's own buffer; `?` leaves the closure
\* with the error and without the lines collected so far.  rest is what is
\* left in buffer when the loop exits.
SplitLoop(buffer, lines) ==
    LET p == Position(buffer) IN
    IF p = 0 THEN [err |-> FALSE, lines |-> lines, rest |-> buffer]
    ELSE LET line == SubSeq(buffer, 1, p)
             drained == SubSeq(buffer, p + 1, Len(buffer))
         IN IF ~Utf8Valid(line)
            THEN [err |-> TRUE, lines |-> <<>>, rest |-> drained]
            ELSE LET line_str == TrimEnd(line) IN
                 SplitLoop(drained,
                           IF line_str # <<>> THEN Append(lines, line_str)
                           ELSE lines)

\* a closure that swallows the from_utf8 error and returns Ok(None)
FrameChunkSilent(chunk) ==
    LET r == SplitLoop(chunk, <<>>) IN
    IF r.err THEN [err |-> FALSE, lines |-> <<>>, rest |-> r.rest] ELSE r

\* let mut buffer = chunk.to_vec(); let mut lines = Vec::new(); loop
FrameChunk(chunk) == SplitLoop(chunk, <<>>)

----------------------------------------------------------------------------
(* serde_json::from_str::<T> for T = struct { a: u64 } (lib.rs 152-155) *)

IsJsonWs(b) == b \in {9, 10, 13, 32}
IsDigit(b) == b >= 48 /\ b <= 57

\* one step of the parser: st.s is the parser position, st.v the number read
\*  0 before '{'   1 before the key   2 after '"'   3 after 'a'
\*  4 before ':'   5 before the number   6 inside the number
\*  7 after the number   8 after '}'   9 after a leading 0   -1 error
ParseStep(st, b) ==
    LET to(s) == [s |-> s, v |-> st.v] IN
    CASE st.s = 0 -> IF IsJsonWs(b) THEN to(0) ELSE IF b = 123 THEN to(1) ELSE to(-1)
      [] st.s = 1 -> IF IsJsonWs(b) THEN to(1) ELSE IF b = 34 THEN to(2) ELSE to(-1)
      [] st.s = 2 -> IF b = 97 THEN to(3) ELSE to(-1)
      [] st.s = 3 -> IF b = 34 THEN to(4) ELSE to(-1)
      [] st.s = 4 -> IF IsJsonWs(b) THEN to(4) ELSE IF b = 58 THEN to(5) ELSE to(-1)
      [] st.s = 5 -> IF IsJsonWs(b) THEN to(5)
                     ELSE IF b = 48 THEN [s |-> 9, v |-> 0]
                     ELSE IF IsDigit(b) THEN [s |-> 6, v |-> b - 48]
                     ELSE to(-1)
      [] st.s = 6 -> IF IsDigit(b) THEN [s |-> 6, v |-> 10 * st.v + (b - 48)]
                     ELSE IF IsJsonWs(b) THEN to(7)
                     ELSE IF b = 125 THEN to(8) ELSE to(-1)
      [] st.s = 7 -> IF IsJsonWs(b) THEN to(7) ELSE IF b = 125 THEN to(8) ELSE to(-1)
      [] st.s = 8 -> IF IsJsonWs(b) THEN to(8) ELSE to(-1)
      [] st.s = 9 -> IF IsJsonWs(b) THEN to(7) ELSE IF b = 125 THEN to(8) ELSE to(-1)
      [] OTHER -> to(-1)

RECURSIVE ParseRun(_, _, _)
ParseRun(line, i, st) ==
    IF i > Len(line) THEN st
    ELSE ParseRun(line, i + 1, ParseStep(st, line[i]))

\* serde_json::from_str::<T>(&line): the whole line must be one document of T
FromStr(line) ==
    LET st == ParseRun(line, 1, [s |-> 0, v |-> 0]) IN
    IF st.s = 8 THEN [ok |-> TRUE, val |-> st.v] ELSE [ok |-> FALSE, val |-> 0]

\* the items of the stream: Ok(record) or Err(OllamaError::<tag>)
OkItem(v) == [tag |-> "Ok", val |-> v]
ErrItem(t) == [tag |-> t, val |-> 0]

\* a decoder that reports a JSON failure under the framing stage's tag
AndThenWrongTag(line) ==
    LET r == FromStr(line) IN
    IF r.ok THEN OkItem(r.val) ELSE ErrItem("InvalidResponse")

\* .and_then(|line| serde_json::from_str(&line).map_err(InvalidResponseFormat))
AndThen(line) ==
    LET r == FromStr(line) IN
    IF r.ok THEN OkItem(r.val) ELSE ErrItem("InvalidResponseFormat")

----------------------------------------------------------------------------
(* The source: response.bytes_stream().map_err(RequestFailed) (lib.rs 126-128) *)

\* every poll of the source returns a chunk, a failure or end-of-input
ChunksRead == reads - fails - ends

\* the source still has bytes to deliver
SourceHasChunk == ~srcFailed /\ pos < Len(body) /\ ChunksRead < MaxChunks
\* the source may report a transport failure now (not once it has reported
\* end-of-input)
SourceCanFail == fails < MaxFail /\ ends = 0
\* the source reports end-of-input: the body is exhausted, or it has failed
SourceAtEnd == srcFailed \/ pos = Len(body)

----------------------------------------------------------------------------
(* The endpoint call: send, then the branch on the status (lib.rs 122-167) *)

\* status codes a server answers with
Statuses == {199, 200, 299, 300, 404}

\* treats every status below 400 as a success
IsSuccessBelow400(code) == code < 400

\* StatusCode::is_success
IsSuccess(code) == code >= 200 /\ code < 300

\* "Unknown error"
UnknownError == <<85, 110, 107, 110, 111, 119, 110, 32, 101, 114, 114, 111, 114>>

\* response.text(): the body decoded lossily, an ill-formed byte becoming U+FFFD
LossyText(bytes) ==
    [i \in 1..Len(bytes) |-> IF bytes[i] < 128 THEN bytes[i] ELSE 65533]

\* the values an endpoint call returns
Pending == [tag |-> "Pending", status |-> 0, text |-> <<>>]
StreamResult == [tag |-> "Stream", status |-> 0, text |-> <<>>]
SendError == [tag |-> "RequestFailed", status |-> 0, text |-> <<>>]
\* OllamaError::ApiError(format!("Status: {}, Error: {}", status, error_text))
ApiError(code, text) == [tag |-> "ApiError", status |-> code, text |-> text]

----------------------------------------------------------------------------
(* State machine *)

Init ==
    /\ status = 0
    /\ textOk = FALSE
    /\ result = Pending
    /\ body \in Bodies
    /\ pos = 0
    /\ srcFailed = FALSE
    /\ fails = 0
    /\ reads = 0
    /\ next = <<>>
    /\ pc = "idle"
    /\ out = <<>>
    /\ emitted = <<>>
    /\ ends = 0
    /\ pulls = 0
    /\ cancelled = FALSE
    /\ readsAtCancel = 0

\* self.client.post(&url).json(&request).send().await succeeds: a response
\* with some status is in hand
Send ==
    /\ result = Pending
    /\ status = 0
    /\ status' \in Statuses
    /\ UNCHANGED <<textOk, result, body>>
    /\ UNCHANGED stream

\* send().await fails and `?` returns the error to the caller
SendFail ==
    /\ result = Pending
    /\ status = 0
    /\ result' = SendError
    /\ UNCHANGED <<status, textOk, body>>
    /\ UNCHANGED stream

\* if response.status().is_success(): the response is moved into the
\* combinator chain and the stream is returned; nothing is read yet
ReturnStream ==
    /\ result = Pending
    /\ status # 0
    /\ IsSuccess(status)
    /\ result' = StreamResult
    /\ status' = 0
    /\ UNCHANGED <<textOk, body>>
    /\ UNCHANGED stream

\* else: the body is read as text, "Unknown error" standing in when that
\* fails, and the ApiError is returned
ReturnApiError ==
    /\ result = Pending
    /\ status # 0
    /\ ~IsSuccess(status)
    /\ \E ok \in BOOLEAN :
        /\ textOk' = ok
        /\ result' = ApiError(status, IF ok THEN LossyText(body) ELSE UnknownError)
    /\ UNCHANGED <<status, body>>
    /\ UNCHANGED stream

\* a stream that keeps running after its consumer has dropped it
CanPollDetached == TRUE

\* the stream is lazy: its combinators run only inside a poll by the consumer
\* that owns it, and a dropped stream is never polled again
CanPoll == ~cancelled

\* the consumer calls stream.next()
Request ==
    /\ result = StreamResult
    /\ pc = "idle"
    /\ CanPoll
    /\ ends < MaxEnds
    /\ pc' = "polling"
    /\ pulls' = pulls + 1
    /\ UNCHANGED <<body, pos, srcFailed, fails, reads, next, out,
                   emitted, ends, cancelled, readsAtCancel>>
    /\ UNCHANGED call

\* an inner stream that returns its first line without advancing
DeliverLineNoPop ==
    /\ pc = "polling"
    /\ CanPoll
    /\ next # <<>>
    /\ emitted' = Append(emitted, Head(next))
    /\ out' = Append(out, AndThen(Head(next)))
    /\ pc' = "idle"
    /\ UNCHANGED <<body, pos, srcFailed, fails, reads, next, ends, pulls,
                   cancelled, readsAtCancel>>
    /\ UNCHANGED call

\* TryFlatten: the inner stream::iter(lines) still has a line; and_then
\* decodes it and the item is returned.  The source is not polled.
DeliverLine ==
    /\ pc = "polling"
    /\ CanPoll
    /\ next # <<>>
    /\ emitted' = Append(emitted, Head(next))
    /\ out' = Append(out, AndThen(Head(next)))
    /\ next' = Tail(next)
    /\ pc' = "idle"
    /\ UNCHANGED <<body, pos, srcFailed, fails, reads, ends, pulls,
                   cancelled, readsAtCancel>>
    /\ UNCHANGED call

\* TryFlatten: the inner stream is exhausted, the source is polled and
\* yields the next k bytes as one chunk.  The closure frames the chunk:
\*  - on a from_utf8 error the Err item is returned to the consumer;
\*  - otherwise the lines become the inner stream; its first line, if any,
\*    is decoded and returned in the same poll, and with no line the loop
\*    goes on to poll the source again.
PollChunk(k) ==
    /\ pc = "polling"
    /\ CanPoll
    /\ next = <<>>
    /\ SourceHasChunk
    /\ k \in 1..(Len(body) - pos)
    /\ pos' = pos + k
    /\ reads' = reads + 1
    /\ LET r == FrameChunk(SubSeq(body, pos + 1, pos + k)) IN
        IF r.err
        THEN /\ out' = Append(out, ErrItem("InvalidResponse"))
             /\ next' = <<>>
             /\ pc' = "idle"
             /\ UNCHANGED emitted
        ELSE IF r.lines # <<>>
        THEN /\ emitted' = Append(emitted, Head(r.lines))
             /\ out' = Append(out, AndThen(Head(r.lines)))
             /\ next' = Tail(r.lines)
             /\ pc' = "idle"
        ELSE /\ next' = <<>>
             /\ UNCHANGED <<out, emitted, pc>>
    /\ UNCHANGED <<body, srcFailed, fails, ends, pulls, cancelled, readsAtCancel>>
    /\ UNCHANGED call

\* the source decides how many bytes the chunk holds
ReadChunk == \E k \in 1..Len(body) : PollChunk(k)

\* a chain that polls the source although a line is still waiting
PollFailEager ==
    /\ pc = "polling"
    /\ CanPoll
    /\ SourceCanFail
    /\ reads' = reads + 1
    /\ fails' = fails + 1
    /\ srcFailed' = TRUE
    /\ out' = Append(out, ErrItem("RequestFailed"))
    /\ pc' = "idle"
    /\ UNCHANGED <<body, pos, next, emitted, ends, pulls, cancelled,
                   readsAtCancel>>
    /\ UNCHANGED call

\* the source is polled and reports a transport failure: map_err wraps it
\* and every later combinator passes the Err item through
PollFail ==
    /\ pc = "polling"
    /\ CanPoll
    /\ next = <<>>
    /\ SourceCanFail
    /\ reads' = reads + 1
    /\ fails' = fails + 1
    /\ srcFailed' = TRUE
    /\ out' = Append(out, ErrItem("RequestFailed"))
    /\ pc' = "idle"
    /\ UNCHANGED <<body, pos, next, emitted, ends, pulls, cancelled,
                   readsAtCancel>>
    /\ UNCHANGED call

\* a fused stream: once None was returned the source is not polled again
PollEndFused ==
    /\ pc = "polling"
    /\ CanPoll
    /\ next = <<>>
    /\ SourceAtEnd
    /\ reads' = IF ends > 0 THEN reads ELSE reads + 1
    /\ ends' = ends + 1
    /\ pc' = "idle"
    /\ UNCHANGED <<body, pos, srcFailed, fails, next, out, emitted,
                   pulls, cancelled, readsAtCancel>>
    /\ UNCHANGED call

\* a chain that answers end-of-input with Pending and is never woken
PollEndNever ==
    /\ pc = "polling"
    /\ CanPoll
    /\ next = <<>>
    /\ SourceAtEnd
    /\ UNCHANGED vars

\* the source is polled and reports end-of-input: TryFlatten returns None
PollEnd ==
    /\ pc = "polling"
    /\ CanPoll
    /\ next = <<>>
    /\ SourceAtEnd
    /\ reads' = reads + 1
    /\ ends' = ends + 1
    /\ pc' = "idle"
    /\ UNCHANGED <<body, pos, srcFailed, fails, next, out, emitted,
                   pulls, cancelled, readsAtCancel>>
    /\ UNCHANGED call

\* the consumer drops the stream, between two items or while awaiting one;
\* the inner stream and the response are dropped with it
Cancel ==
    /\ result = StreamResult
    /\ ~cancelled
    /\ cancelled' = TRUE
    /\ readsAtCancel' = reads
    /\ next' = <<>>
    /\ UNCHANGED <<body, pos, srcFailed, fails, reads, pc, out,
                   emitted, ends, pulls>>
    /\ UNCHANGED call

Next ==
    \/ Send
    \/ SendFail
    \/ ReturnStream
    \/ ReturnApiError
    \/ Request
    \/ DeliverLine
    \/ ReadChunk
    \/ PollFail
    \/ PollEnd
    \/ Cancel

Spec == Init /\ [][Next]_vars

\* a consumer that never drops the stream and keeps pulling, on a source
\* that answers every poll
NextLive ==
    \/ Send
    \/ SendFail
    \/ ReturnStream
    \/ ReturnApiError
    \/ Request
    \/ DeliverLine
    \/ ReadChunk
    \/ PollFail
    \/ PollEnd

\* the call returns; the consumer pulls again after every item; a poll of
\* the chain is answered by a line, a chunk or end-of-input.  A transport
\* failure is the source's choice and is never forced.
Fairness ==
    /\ WF_vars(Send \/ ReturnStream \/ ReturnApiError)
    /\ WF_vars(Request)
    /\ WF_vars(DeliverLine \/ ReadChunk \/ PollEnd)

\* the liveness runs take bodies of three kinds of segment: a record, an
\* invalid byte and a blank line
LiveSegments == {Rec1, BadUtf8, Blank}

LiveBodies ==
    {b \in Bodies :
        \E s \in SegSeqs :
            /\ \A i \in 1..Len(s) : s[i] \in LiveSegments
            /\ b \in {JoinLines(s), SubSeq(JoinLines(s), 1, Len(JoinLines(s)) - 1)}}

InitLive == Init /\ body \in LiveBodies

SpecLive == InitLive /\ [][NextLive]_vars /\ Fairness

----------------------------------------------------------------------------
(* Reference decoder of the specification, used to state the claims:       *)
(* framing over the concatenated bytes, independent of the chunks.          *)

\* the consumer has been told that the sequence is over, no failure reported
EndedClean == ends > 0 /\ fails = 0

\* the bytes the source has delivered so far
Received == SubSeq(body, 1, pos)

\* the line, if any, that one terminated or final segment contributes
SegLine(seg) ==
    IF Utf8Valid(seg) /\ TrimEnd(seg) # <<>> THEN <<TrimEnd(seg)>> ELSE <<>>

\* the outcome, if any, that one terminated or final segment contributes
SegOutcome(seg) ==
    IF ~Utf8Valid(seg) THEN <<ErrItem("InvalidResponse")>>
    ELSE IF TrimEnd(seg) = <<>> THEN <<>>
    ELSE <<AndThen(TrimEnd(seg))>>

RECURSIVE RefLines(_, _)
\* lines of bytes; with fin the unterminated tail counts as a last line
RefLines(bytes, fin) ==
    LET p == Position(bytes) IN
    IF p = 0 THEN (IF fin THEN SegLine(bytes) ELSE <<>>)
    ELSE SegLine(SubSeq(bytes, 1, p))
            \o RefLines(SubSeq(bytes, p + 1, Len(bytes)), fin)

RECURSIVE RefOutcomes(_, _)
\* outcomes of bytes; with fin the unterminated tail counts as a last line
RefOutcomes(bytes, fin) ==
    LET p == Position(bytes) IN
    IF p = 0 THEN (IF fin THEN SegOutcome(bytes) ELSE <<>>)
    ELSE SegOutcome(SubSeq(bytes, 1, p))
            \o RefOutcomes(SubSeq(bytes, p + 1, Len(bytes)), fin)

RECURSIVE UnterminatedTail(_)
\* the bytes after the last terminator
UnterminatedTail(bytes) ==
    LET p == Position(bytes) IN
    IF p = 0 THEN bytes ELSE UnterminatedTail(SubSeq(bytes, p + 1, Len(bytes)))

IsItemError(item) == item.tag \in {"InvalidResponse", "InvalidResponseFormat"}

\* number of items of seq with one of the tags
CountTags(seq, tags) == Cardinality({i \in 1..Len(seq) : seq[i].tag \in tags})

\* the Ok items of seq, in order
OkItems(seq) == SelectSeq(seq, LAMBDA item : item.tag = "Ok")

\* every line of the body is terminated and is a valid record or blank
ValidNdjson(bytes) ==
    /\ UnterminatedTail(bytes) = <<>>
    /\ \A i \in 1..Len(RefOutcomes(bytes, FALSE)) :
            RefOutcomes(bytes, FALSE)[i].tag = "Ok"

\* serde_json::to_string of the record {a: v}, v < 10
Encode(v) == <<123, 34, 97, 34, 58, 48 + v, 125>>

RECURSIVE Ndjson(_)
\* one document per line, each terminated by \n
Ndjson(recs) ==
    IF recs = <<>> THEN <<>>
    ELSE Encode(Head(recs)) \o <<NL>> \o Ndjson(Tail(recs))

RecordSeqs == UNION {[1..n -> {1, 2}] : n \in 1..MaxLines}

----------------------------------------------------------------------------
(* Claims *)

\* C1: for a valid NDJSON body the lines emitted do not depend on the chunk
\* boundaries: whatever the chunking, once the sequence has ended the lines
\* handed to the record decoder are those the same bytes give as one chunk.
C1_ChunkingIndependent ==
    (EndedClean /\ ValidNdjson(body)) => emitted = FrameChunk(body).lines

\* C2: the chunks {"a":1}\n{"a"  and  :2}\n  decode to exactly the records
\* {a:1} and {a:2}, in that order, with no error item: when the first poll
\* of the source gave the first 12 bytes and a later poll gives the other 5,
\* the consumer holds exactly these two records.
ExampleBody == Rec1 \o <<NL>> \o Rec2 \o <<NL>>
C2_SpanningRecord ==
    [][(body = ExampleBody /\ reads = 1 /\ pos = 12 /\ pos' = Len(body))
        => out' = <<OkItem(1), OkItem(2)>>]_vars

\* C3: a body of N lines of which exactly one is malformed gives, whatever
\* the chunking, exactly N outcomes: the failure at the position of the
\* malformed line and every valid record at its own position.
C3_OneMalformedLine ==
    (EndedClean /\ UnterminatedTail(body) = <<>>
        /\ CountTags(RefOutcomes(body, FALSE),
                     {"InvalidResponse", "InvalidResponseFormat"}) = 1)
    => out = RefOutcomes(body, FALSE)

\* C4: when the source fails after K chunks the consumer receives exactly
\* the outcomes decodable from those K chunks, then one RequestFailed as
\* the last item, and no further item on any later pull.
C4_FailureAfterKChunks ==
    /\ [](srcFailed =>
            out = RefOutcomes(Received, FALSE) \o <<ErrItem("RequestFailed")>>)
    /\ [][srcFailed => out' = out]_vars

\* C5: once the consumer has dropped the stream the source is not read
\* again: its read count stays what it was at cancellation.
C5_NoReadAfterCancel == cancelled => reads = readsAtCancel

\* the consumer has dropped the stream after its first record while the
\* source still had bytes to deliver
C5_Witness ==
    /\ cancelled
    /\ out = <<OkItem(1)>>
    /\ pos < Len(body)
    /\ reads >= 1

\* C6: encoding N records as NDJSON and decoding the bytes, under any
\* chunking, gives the same N records in the same order and no error.
C6_RoundTrip ==
    \A recs \in RecordSeqs :
        (EndedClean /\ body = Ndjson(recs))
        => out = [i \in 1..Len(recs) |-> OkItem(recs[i])]

\* C7: at end-of-input an unterminated tail that is not blank is emitted as
\* one final line, the trimmed tail, and decoded; it is never dropped.
C7_TailFlushed ==
    (EndedClean /\ Utf8Valid(UnterminatedTail(body))
        /\ TrimEnd(UnterminatedTail(body)) # <<>>)
    => /\ emitted # <<>>
       /\ emitted[Len(emitted)] = TrimEnd(UnterminatedTail(body))
       /\ out # <<>>
       /\ out[Len(out)] = AndThen(TrimEnd(UnterminatedTail(body)))

\* C8: an invalid UTF-8 line gives exactly one framing error and affects no
\* other line: every other complete non-empty line is emitted, in order.
C8_FramingErrorIsolated ==
    (EndedClean /\ CountTags(RefOutcomes(body, FALSE), {"InvalidResponse"}) > 0)
    => /\ emitted = RefLines(body, FALSE)
       /\ CountTags(out, {"InvalidResponse"})
            = CountTags(RefOutcomes(body, FALSE), {"InvalidResponse"})

\* C9: an item-level error on one line does not stop the sequence: the
\* valid lines that follow the failed line are still delivered as
\* successes, in order.
C9_ItemErrorNotTerminal ==
    EndedClean =>
        \A i \in 1..Len(RefOutcomes(body, FALSE)) :
            IsItemError(RefOutcomes(body, FALSE)[i]) =>
                LET later == OkItems(SubSeq(RefOutcomes(body, FALSE), i + 1,
                                            Len(RefOutcomes(body, FALSE))))
                    got == OkItems(out)
                IN /\ Len(got) >= Len(later)
                   /\ SubSeq(got, Len(got) - Len(later) + 1, Len(got)) = later

C11_ApiErrorOnly ==
    /\ [][(result = Pending /\ status # 0 /\ status \notin 200..299)
            => result' = ApiError(status, IF textOk' THEN LossyText(body)
                                          ELSE UnknownError)]_vars
    /\ [](result.tag = "ApiError"
            => /\ result.status \notin 200..299
               /\ pulls = 0 /\ reads = 0 /\ pos = 0
               /\ next = <<>> /\ emitted = <<>> /\ out = <<>>)

\* a 404 whose body is a well-formed NDJSON record was answered with the
\* ApiError carrying that body as text
C11_Witness ==
    /\ result = ApiError(404, Rec1 \o <<NL>>)
    /\ body = Rec1 \o <<NL>>
    /\ textOk

\* C12: outcomes come in the byte order of their lines and no non-empty
\* line is reordered or dropped: once the sequence has ended, the items
\* delivered are the outcomes of the lines of the whole input, in order.
C12_OrderedNoneDropped == EndedClean => out = RefOutcomes(body, TRUE)

\* C13: the source is polled only inside a pull of the consumer that has
\* not been answered yet, one poll at a time, and only when no assembled
\* line is waiting for delivery.
C13_PullBased ==
    [][reads' # reads
        => /\ pc = "polling"
           /\ next = <<>>
           /\ pulls = Len(out) + ends + 1
           /\ reads' = reads + 1]_vars

\* two pulls were answered with two items after a single poll of the
\* source: the second came from the line left waiting by the first chunk
C13_Witness ==
    /\ pc = "idle"
    /\ pulls = 2
    /\ reads = 1
    /\ Len(out) = 2
    /\ ends = 0

\* the number of terminators in bytes
CountNL(bytes) == Cardinality({i \in 1..Len(bytes) : bytes[i] = NL})

\* line is what a Line is: trimmed, not empty, without terminator
IsLine(line) ==
    /\ line # <<>>
    /\ ~IsWhitespace(line[Len(line)])
    /\ CountNL(line) = 0

\* C14: every line handed to the record decoder, or waiting to be, is
\* non-empty after trimming and holds no terminator; blank lines give no
\* item: the records and JSON errors delivered are one per such line.
C14_LinesTrimmedNonEmpty ==
    /\ \A i \in 1..Len(emitted) : IsLine(emitted[i])
    /\ \A i \in 1..Len(next) : IsLine(next[i])
    /\ CountTags(out, {"Ok", "InvalidResponseFormat"}) = Len(emitted)

\* a body with a blank line before its record was read to the end and gave
\* the record alone
C14_Witness ==
    /\ body = OnlyCR \o <<NL>> \o Rec1 \o <<NL>>
    /\ EndedClean
    /\ reads = 2
    /\ emitted = <<Rec1>>
    /\ out = <<OkItem(1)>>

CutShort == ~srcFailed /\ pos < Len(body) /\ ChunksRead >= MaxChunks

\* the consumer has seen the sequence end: None, or the transport failure
ObservedEnd == ends > 0 \/ CountTags(out, {"RequestFailed"}) > 0

\* C16: on a finite source a consumer that keeps pulling eventually sees
\* the sequence end, by None after end-of-input or by the transport failure,
\* with no line left waiting and finitely many items delivered.
C16_EventuallyEnds ==
    ([]~CutShort)
        => [](result = StreamResult
                => <>(/\ ObservedEnd
                      /\ next = <<>>
                      /\ Len(out) <= CountNL(body) + fails))

\* the whole body was read in more than one chunk, an item was delivered
\* and the consumer was then told None
C16_Witness ==
    /\ ends = 1
    /\ fails = 0
    /\ reads >= 3
    /\ out # <<>>
    /\ pc = "idle"

\* C17: after the framing of a chunk the bytes left in the buffer hold no
\* terminator: every terminator of the chunk was drained with its line.
C17_NoTerminatorLeft ==
    [][pos' > pos
        => LET r == FrameChunk(SubSeq(body, pos + 1, pos'))
           IN CountNL(r.rest) = 0]_vars

RECURSIVE BadLineIn(_)
\* some terminated line of bytes is not valid UTF-8
BadLineIn(bytes) ==
    LET p == Position(bytes) IN
    IF p = 0 THEN FALSE
    ELSE \/ ~Utf8Valid(SubSeq(bytes, 1, p))
         \/ BadLineIn(SubSeq(bytes, p + 1, Len(bytes)))

StreamTags == {"Ok", "RequestFailed", "InvalidResponse", "InvalidResponseFormat"}

\* the step hands a line to the record decoder
DecodesLine == emitted' # emitted

\* C18: every item is tagged by the stage that produced it.  An item is
\* RequestFailed exactly when the source reported a failure, InvalidResponse
\* exactly when the chunk read has an invalid UTF-8 line, and
\* InvalidResponseFormat exactly when a line was decoded and is not a
\* record; Ok exactly when it is one.  No other tag is a stream item.
C18_TaggedByStage ==
    [][out' # out
        => \E item \in {out'[Len(out')]} :
            /\ out' = Append(out, item)
            /\ item.tag \in StreamTags
            /\ item.tag = "RequestFailed" <=> fails' = fails + 1
            /\ item.tag = "InvalidResponse"
                <=> (pos' > pos /\ BadLineIn(SubSeq(body, pos + 1, pos')))
            /\ item.tag = "InvalidResponseFormat"
                <=> (DecodesLine /\ ~FromStr(emitted'[Len(emitted')]).ok)
            /\ item.tag = "Ok"
                <=> (DecodesLine /\ FromStr(emitted'[Len(emitted')]).ok)
            /\ DecodesLine => Utf8Valid(emitted'[Len(emitted')])]_vars

\* one stream delivered an error of each stage
C18_Witness ==
    out = <<ErrItem("InvalidResponseFormat"), ErrItem("InvalidResponse"),
            ErrItem("RequestFailed")>>

\* the lines the step adds: the one decoded and those left waiting
LinesYielded == SubSeq(emitted', Len(emitted) + 1, Len(emitted')) \o next'

\* C19: a chunk is all-or-nothing.  When a terminated line of the chunk is
\* invalid UTF-8 the chunk gives exactly one InvalidResponse and no line;
\* otherwise it gives all its terminated non-empty lines, in order, and no
\* InvalidResponse.
C19_ChunkAllOrNothing ==
    [][pos' > pos
        => LET chunk == SubSeq(body, pos + 1, pos') IN
           IF BadLineIn(chunk)
           THEN /\ out' = Append(out, ErrItem("InvalidResponse"))
                /\ LinesYielded = <<>>
           ELSE /\ LinesYielded = RefLines(chunk, FALSE)
                /\ CountTags(out', {"InvalidResponse"})
                    = CountTags(out, {"InvalidResponse"})]_vars

\* one chunk held a record and then an invalid line: only the error came
C19_Witness ==
    /\ body = Rec1 \o <<NL>> \o BadUtf8 \o <<NL>>
    /\ reads = 1
    /\ pos = Len(body)
    /\ out = <<ErrItem("InvalidResponse")>>
    /\ emitted = <<>>
    /\ next = <<>>

\* line ends the sequence bytes
IsSuffix(line, bytes) ==
    /\ Len(line) <= Len(bytes)
    /\ SubSeq(bytes, Len(bytes) - Len(line) + 1, Len(bytes)) = line

RECURSIVE Embeds(_, _)
\* the lines can be matched, in order, each with a terminator of its own in
\* bytes: a line is the end of the trimmed segment its terminator closes
Embeds(lines, bytes) ==
    LET p == Position(bytes) IN
    IF lines = <<>> THEN TRUE
    ELSE IF p = 0 THEN FALSE
    ELSE IF IsSuffix(Head(lines), TrimEnd(SubSeq(bytes, 1, p)))
    THEN Embeds(Tail(lines), SubSeq(bytes, p + 1, Len(bytes)))
    ELSE Embeds(lines, SubSeq(bytes, p + 1, Len(bytes)))

\* C20: nothing is delivered twice.  The items delivered, with the lines
\* still waiting, are at most as many as the terminators read plus the
\* failures reported, and the lines match distinct terminators in order.
C20_NoDuplicates ==
    /\ Len(out) + Len(next) <= CountNL(Received) + fails
    /\ Embeds(emitted \o next, Received)

\* two records and a failure: three items for two terminators and one
\* failure
C20_Witness ==
    /\ body = Rec1 \o <<NL>> \o Rec2 \o <<NL>>
    /\ out = <<OkItem(1), OkItem(2), ErrItem("RequestFailed")>>
    /\ fails = 1

====
